---- MODULE Spec2Model ----
(***************************************************************************)
(* A model of phi/field/_point_cloud.py (PointCloud, _distribute_points)   *)
(* and of phi/app/_console/_console_gui.py (ConsoleGui.show / draw).       *)
(*                                                                         *)
(* Real-valued coordinates are kept exactly as integers in units of half a *)
(* cell: the position 1.5 is the integer 3.  Every coordinate the modelled *)
(* code produces (cell index + 0.5, cell index + a drawn offset) is a      *)
(* multiple of one half for the offsets the model draws.                   *)
(***************************************************************************)
EXTENDS Integers, Sequences, FiniteSets, TLC

VARIABLES
    cloud,      \* the PointCloud under test (self)
    op,         \* the PointCloud operation called last
    target,     \* the argument `points` of the last sample_at
    result,     \* what the last PointCloud operation returned or raised
    seedArgs,   \* the arguments of the last _distribute_points call
    seedOut,    \* what that call returned or raised
    tripOut,    \* the outcome of scattering one seeded batch back onto the grid
    pc,         \* ConsoleGui.show: position in the command loop
    command,    \* the string input() returned
    fieldnames, \* app.fieldnames
    shown,      \* ordered_field_names(app, config.get('display'))
    invoked,    \* the app operations the current command invoked
    printed,    \* what the current command printed
    heatmaps    \* the heatmaps the current command rendered

cloudVars == <<cloud, op, target, result>>
seedVars == <<seedArgs, seedOut, tripOut>>
consoleVars == <<pc, command, fieldnames, shown, invoked, printed, heatmaps>>
vars == <<cloudVars, seedVars, consoleVars>>

(***************************************************************************)
(* Bounds of the model.                                                    *)
(***************************************************************************)
MaxPoints == 2            \* elements of a PointCloud
MaxBatch == 2             \* batches of a density
MaxParticlesPerCell == 2  \* particles_per_cell
MaxRandom == 2            \* points of a 'uniform' call whose offsets are drawn
MaxWords == 2             \* tokens of a command that is not 'show <names>'
MaxTail == 3              \* tokens after 'show ' in a command

(***************************************************************************)
(* Small helpers.                                                          *)
(***************************************************************************)
RECURSIVE SumSeq(_)
SumSeq(s) == IF s = <<>> THEN 0 ELSE Head(s) + SumSeq(Tail(s))

RECURSIVE Concat(_)
Concat(ss) == IF ss = <<>> THEN <<>> ELSE Head(ss) \o Concat(Tail(ss))

SeqsUpTo(S, n) == UNION {[1..k -> S] : k \in 0..n}

Axes == {1, 2}

(***************************************************************************)
(* math.round on the rational num / den (den > 0).  The numeric backend    *)
(* rounds a tie to the even neighbour (numpy.round, tf.round).             *)
(***************************************************************************)
Round(num, den) ==
    LET q == num \div den
        r == num - q * den
    IN  IF 2 * r < den THEN q
        ELSE IF 2 * r > den THEN q + 1
        ELSE IF q % 2 = 0 THEN q ELSE q + 1

(***************************************************************************)
(* Box.global_to_local(p) * resolution on one axis, as the rational        *)
(* <<numerator, denominator>>.  p2 is the coordinate in half units, the    *)
(* box bounds are whole units: ((p - lower) / (upper - lower)) * R.        *)
(***************************************************************************)
ScaledLocal(box, resolution, p2, ax) ==
    << (p2 - 2 * box.lower[ax]) * resolution[ax],
       2 * (box.upper[ax] - box.lower[ax]) >>

\* line 40: closest_index = to_int(round(global_to_local(points) * resolution))
ClosestIndex(box, resolution, points) ==
    [i \in 1..Len(points) |->
        [ax \in Axes |->
            LET x == ScaledLocal(box, resolution, points[i][ax], ax)
            IN  Round(x[1], x[2])]]

(***************************************************************************)
(* PointCloud                                                              *)
(***************************************************************************)
Extrapolations == {"ZERO", "PERIODIC", "BOUNDARY"}
Vals == {1, 2}
Positions == {<<1, 1>>, <<2, 1>>, <<3, 3>>}

\* PointCloud.__init__: stores elements, values, extrapolation and the flag
PointCloud(elements, values, extrapolation, add_overlapping) ==
    [elements |-> elements, values |-> values,
     extrapolation |-> extrapolation, add_overlapping |-> add_overlapping]

\* values: one scalar, broadcast to every element, or one value per element
Scalar(v) == [shape |-> "scalar", data |-> <<v>>]
Array(vs) == [shape |-> "array", data |-> vs]

\* the value of element i
ValueAt(field, i) ==
    IF field.values.shape = "scalar" THEN field.values.data[1]
    ELSE field.values.data[i]

Clouds ==
    { PointCloud(e, Scalar(v), x, a) :
        e \in SeqsUpTo(Positions, MaxPoints), v \in Vals, x \in Extrapolations,
        a \in BOOLEAN }
    \cup
    UNION { { PointCloud(e, Array(v), x, a) :
                v \in [1..Len(e) -> Vals], x \in Extrapolations, a \in BOOLEAN }
            : e \in SeqsUpTo(Positions, MaxPoints) }

UnitBox == [lower |-> <<0, 0>>, upper |-> <<2, 2>>]
GridCell(bounds, resolution) ==
    [kind |-> "GridCell", bounds |-> bounds, resolution |-> resolution]
Targets ==
    { GridCell(UnitBox, <<1, 1>>), GridCell(UnitBox, <<2, 2>>),
      GridCell(UnitBox, <<2, 1>>) }
    \cup { [kind |-> "Sphere"], [kind |-> "Tensor"] }

(***************************************************************************)
(* PointCloud._grid_scatter.  Line 40 computes closest_index.  Line 41     *)
(* then evaluates, left to right, self.sample_points (an attribute no      *)
(* class in the source defines) and the names valid_indices and shape,     *)
(* which are bound nowhere in the module: the call raises before           *)
(* math.scatter runs and line 42 is never reached.  Which of the two       *)
(* errors is raised depends on SampledField, so both are outcomes.         *)
(***************************************************************************)
ScatterFailures == {"AttributeError", "NameError"}

_grid_scatter(self, box, resolution) ==
    { [kind |-> "error", error |-> e,
       closest_index |-> ClosestIndex(box, resolution, self.elements)]
      : e \in ScatterFailures }

\* PointCloud.sample_at: the outcomes of the call
sample_at(self, points) ==
    IF points.kind = "GridCell"
    THEN _grid_scatter(self, points.bounds, points.resolution)
    ELSE { [kind |-> "error", error |-> "NotImplementedError"] }

\* mask() with the values of self kept
mask_keeps_values(self) == PointCloud(self.elements, self.values, "ZERO", FALSE)

\* PointCloud.mask
mask(self) == PointCloud(self.elements, Scalar(1), "ZERO", FALSE)

NoTarget == [kind |-> "none"]
NoResult == [kind |-> "none"]

CloudInit ==
    /\ cloud \in Clouds
    /\ op = "new"
    /\ target = NoTarget
    /\ result = NoResult

\* a caller calls cloud.sample_at(points)
SampleAt ==
    /\ \E t \in Targets :
         /\ target' = t
         /\ result' \in sample_at(cloud, t)
    /\ op' = "sample_at"
    /\ UNCHANGED cloud
    /\ UNCHANGED <<seedVars, consoleVars>>

\* a caller calls cloud.mask()
Mask ==
    /\ result' = [kind |-> "PointCloud", value |-> mask(cloud)]
    /\ op' = "mask"
    /\ target' = NoTarget
    /\ UNCHANGED cloud
    /\ UNCHANGED <<seedVars, consoleVars>>

\* a caller scatters the mask of the cloud: cloud.mask().sample_at(points)
MaskSampleAt ==
    /\ \E t \in Targets :
         /\ target' = t
         /\ result' \in sample_at(mask(cloud), t)
    /\ op' = "mask.sample_at"
    /\ UNCHANGED cloud
    /\ UNCHANGED <<seedVars, consoleVars>>

(***************************************************************************)
(* _distribute_points                                                      *)
(***************************************************************************)
GridRes == <<2, 2>>
GridBox == [lower |-> <<0, 0>>, upper |-> GridRes]
Cells == (0..(GridRes[1] - 1)) \X (0..(GridRes[2] - 1))

\* the cells in row-major order, the order math.where lists them in
CellOrder ==
    [c \in 1..(GridRes[1] * GridRes[2]) |->
        <<(c - 1) \div GridRes[2], (c - 1) % GridRes[2]>>]

\* a density: its batches (cell -> value) and whether its static batch
\* size is known (math.staticshape(density)[0] is not None)
Densities ==
    UNION { [static_known : BOOLEAN, data : [1..n -> [Cells -> {0, 1}]]]
            : n \in 1..MaxBatch }

Distributions == {"center", "uniform"}

\* math.random_uniform draws from [0, 1): the offsets 0.0 and 0.5 per axis
Offsets == {0, 1} \X {0, 1}

\* line 61
batch_size(density) ==
    IF density.static_known THEN Len(density.data) ELSE 1

\* line 64-65: math.to_float(math.where(density[batch, ..., 0] > 0)), in half units
where(batch) ==
    LET active == SelectSeq(CellOrder, LAMBDA c : batch[c] > 0)
    IN  [i \in 1..Len(active) |-> [ax \in Axes |-> 2 * active[i][ax]]]

ActiveCount(batch) == Cardinality({c \in Cells : batch[c] > 0})

\* the number of random offsets a 'uniform' call draws
DrawCount(density, particles_per_cell) ==
    SumSeq([b \in 1..batch_size(density) |->
                particles_per_cell * ActiveCount(density.data[b])])

\* the seeding of one batch with the cell index emitted without the + 0.5
BatchPoints_corner(indices, particles_per_cell, distribution, rnd) ==
    Concat([r \in 1..particles_per_cell |->
        [i \in 1..Len(indices) |->
            [ax \in Axes |->
                IF distribution = "center"
                THEN indices[i][ax]
                ELSE indices[i][ax] + rnd[r][i][ax]]]])

\* lines 67-73 for one batch: particles_per_cell copies of the indices, each
\* shifted by 0.5 ('center') or by the offsets drawn for it ('uniform');
\* rnd[r] is the array random_uniform returned in repetition r
BatchPoints(indices, particles_per_cell, distribution, rnd) ==
    Concat([r \in 1..particles_per_cell |->
        [i \in 1..Len(indices) |->
            [ax \in Axes |->
                IF distribution = "center"
                THEN indices[i][ax] + 1
                ELSE indices[i][ax] + rnd[r][i][ax]]]])

\* math.stack: one rectangular array, or ValueError when the shapes differ
stack(arrays) ==
    IF \A i, j \in 1..Len(arrays) : Len(arrays[i]) = Len(arrays[j])
    THEN [kind |-> "array", value |-> arrays]
    ELSE [kind |-> "error", error |-> "ValueError"]

\* _distribute_points with the ValueError of math.stack swallowed: the ragged
\* list of batches is returned as it is
_distribute_points_ragged(density, particles_per_cell, distribution, draws) ==
    [kind |-> "array",
     value |-> [b \in 1..batch_size(density) |->
                   BatchPoints(where(density.data[b]), particles_per_cell,
                               distribution, draws[b])]]

\* _distribute_points; draws[b][r] is random_uniform's array for batch b,
\* repetition r
_distribute_points(density, particles_per_cell, distribution, draws) ==
    LET index_array ==
            [b \in 1..batch_size(density) |->
                BatchPoints(where(density.data[b]), particles_per_cell,
                            distribution, draws[b])]
    IN  stack(index_array)

\* the arrays random_uniform returns over one call, cut from one stream of
\* drawn offsets: batch by batch, repetition by repetition
DrawsFrom(rnd, density, particles_per_cell) ==
    [b \in 1..batch_size(density) |->
        LET before == SumSeq([c \in 1..(b - 1) |->
                        particles_per_cell * ActiveCount(density.data[c])])
            n == ActiveCount(density.data[b])
        IN  [r \in 1..particles_per_cell |->
                [i \in 1..n |-> rnd[before + (r - 1) * n + i]]]]

Draws(density, particles_per_cell) ==
    { DrawsFrom(rnd, density, particles_per_cell) :
        rnd \in [1..DrawCount(density, particles_per_cell) -> Offsets] }

NoDraws(density, particles_per_cell) ==
    [b \in 1..batch_size(density) |-> [r \in 1..particles_per_cell |-> <<>>]]

\* the calls explored: any density, any particles_per_cell up to the bound,
\* 'center', and 'uniform' where at most MaxRandom offsets are drawn
SeedCalls ==
    { c \in [density : Densities, particles_per_cell : 1..MaxParticlesPerCell,
             distribution : Distributions] :
        c.distribution = "uniform" =>
            DrawCount(c.density, c.particles_per_cell) <= MaxRandom }

NoArgs == [distribution |-> "none"]

SeedInit ==
    /\ seedArgs \in SeedCalls
    /\ seedOut = NoResult
    /\ tripOut = NoResult

\* the call _distribute_points(density, particles_per_cell, distribution)
DistributePoints ==
    /\ seedOut = NoResult
    /\ \E draws \in IF seedArgs.distribution = "uniform"
                    THEN Draws(seedArgs.density, seedArgs.particles_per_cell)
                    ELSE {NoDraws(seedArgs.density, seedArgs.particles_per_cell)} :
         seedOut' = _distribute_points(seedArgs.density,
                        seedArgs.particles_per_cell, seedArgs.distribution, draws)
    /\ UNCHANGED <<seedArgs, tripOut>>
    /\ UNCHANGED <<cloudVars, consoleVars>>

\* a caller scatters the points seeded for batch b back onto the density's
\* grid: PointCloud(points, 1, ZERO, add_overlapping=True).sample_at(grid)
ScatterSeeded ==
    /\ seedOut.kind = "array"
    /\ \E b \in 1..Len(seedOut.value) :
         \E o \in sample_at(PointCloud(seedOut.value[b], Scalar(1), "ZERO", TRUE),
                            GridCell(GridBox, GridRes)) :
            tripOut' = [kind |-> "scatter", batch |-> b, outcome |-> o]
    /\ UNCHANGED <<seedArgs, seedOut>>
    /\ UNCHANGED <<cloudVars, consoleVars>>

(***************************************************************************)
(* ConsoleGui.  A string is the sequence of its tokens: the command words, *)
(* the blank, the comma and the letters of field names.  'show a, x' is    *)
(* <<"show", " ", "a", ",", " ", "x">>.                                    *)
(***************************************************************************)
Words == {"step", "play", "pause", "show", "help"}
TailTokens == {" ", ",", "a", "x"}

WordTokens == Words \cup {" "}

Commands ==
    SeqsUpTo(WordTokens, MaxWords)
    \cup { <<"show", " ">> \o t : t \in SeqsUpTo(TailTokens, MaxTail) }

\* the fallback of shutil.get_terminal_size
Cols == 80
Rows == 20

\* str.startswith
startswith(s, prefix) ==
    /\ Len(s) >= Len(prefix)
    /\ SubSeq(s, 1, Len(prefix)) = prefix

\* str.split(','): the pieces between the commas, at least one
RECURSIVE split(_)
split(s) ==
    IF \A i \in 1..Len(s) : s[i] # ","
    THEN <<s>>
    ELSE LET i == CHOOSE k \in 1..Len(s) :
                    s[k] = "," /\ \A j \in 1..(k - 1) : s[j] # ","
         IN  <<SubSeq(s, 1, i - 1)>> \o split(SubSeq(s, i + 1, Len(s)))

\* str.strip: drops the blanks at both ends
RECURSIVE strip(_)
strip(s) ==
    IF s = <<>> THEN s
    ELSE IF Head(s) = " " THEN strip(Tail(s))
    ELSE IF s[Len(s)] = " " THEN strip(SubSeq(s, 1, Len(s) - 1))
    ELSE s

\* lines 46-47: the field names of 'show <names>'
ParseFields(cmd) ==
    LET fields == split(SubSeq(cmd, Len(<<"show", " ">>) + 1, Len(cmd)))
    IN  [i \in 1..Len(fields) |-> strip(fields[i])]

\* app.get_field(n) raises KeyError for a name the app does not hold
Registered(app_fieldnames, n) == \E f \in app_fieldnames : n = <<f>>

Render(values) ==
    [i \in 1..Len(values) |->
        [field |-> values[i], plt_width |-> Cols \div Len(values),
         plt_height |-> Rows - 1]]

\* draw with a missing name reported and skipped (continue for return): the
\* names found are rendered
draw_fields_skip(app_fieldnames, field_names) ==
    LET found == SelectSeq(field_names,
                           LAMBDA n : Registered(app_fieldnames, n))
        missing == SelectSeq(field_names,
                             LAMBDA n : ~Registered(app_fieldnames, n))
    IN  [printed |-> [i \in 1..Len(missing) |->
                        [msg |-> "missing", field |-> missing[i],
                         available |-> app_fieldnames]]
                     \o (IF found = <<>> THEN <<>>
                         ELSE <<[msg |-> "plot", fields |-> found]>>),
         heatmaps |-> Render(found)]

\* lines 61-78 of draw: look every name up, then render every value; the
\* first missing name is reported and ends the call
draw_fields(app_fieldnames, field_names) ==
    LET missing == {i \in 1..Len(field_names) :
                        ~Registered(app_fieldnames, field_names[i])}
    IN  IF missing # {}
        THEN LET i == CHOOSE k \in missing : \A j \in missing : k <= j
             IN  [printed |-> <<[msg |-> "missing", field |-> field_names[i],
                                 available |-> app_fieldnames]>>,
                  heatmaps |-> <<>>]
        ELSE [printed |-> <<[msg |-> "plot", fields |-> field_names]>>,
              heatmaps |-> Render(field_names)]

\* ConsoleGui.draw; given is FALSE for field_names = None
draw(app_fieldnames, shown_fields, given, field_names) ==
    IF ~given
    THEN IF Len(shown_fields) = 0
         THEN [printed |-> <<[msg |-> "nothing"]>>, heatmaps |-> <<>>]
         ELSE draw_fields(app_fieldnames,
                  IF Len(shown_fields) > 2 THEN SubSeq(shown_fields, 1, 2)
                  ELSE shown_fields)
    ELSE draw_fields(app_fieldnames, field_names)

\* the fields an app holds, and the fields its display configuration lists
NameOrder == <<"a", "b", "c">>
Registries == { {NameOrder[i] : i \in 1..n} : n \in 0..Len(NameOrder) }
ShownOrders(app_fieldnames) ==
    { [i \in 1..n |-> <<NameOrder[i]>>] : n \in 0..Cardinality(app_fieldnames) }

Banner == [msg |-> "banner"]
Prompt == [msg |-> "prompt"]

ConsoleInit ==
    /\ pc = "prompt"
    /\ command = <<>>
    /\ fieldnames \in Registries
    /\ shown \in ShownOrders(fieldnames)
    /\ invoked = <<>>
    /\ printed = <<Banner>>
    /\ heatmaps = <<>>

\* lines 35-36: print the prompt and read the command
Input ==
    /\ pc = "prompt"
    /\ \E c \in Commands : command' = c
    /\ pc' = "dispatch"
    /\ invoked' = <<>>
    /\ printed' = <<Prompt>>
    /\ heatmaps' = <<>>
    /\ UNCHANGED <<fieldnames, shown>>
    /\ UNCHANGED <<cloudVars, seedVars>>

\* lines 37-42: 'step', 'play', 'pause' call the app
CmdApp ==
    /\ pc = "dispatch"
    /\ command \in {<<"step">>, <<"play">>, <<"pause">>}
    /\ invoked' = invoked \o command
    /\ pc' = "prompt"
    /\ UNCHANGED <<command, fieldnames, shown, printed, heatmaps>>
    /\ UNCHANGED <<cloudVars, seedVars>>

\* lines 43-44: 'show'
CmdShow ==
    /\ pc = "dispatch"
    /\ command = <<"show">>
    /\ LET d == draw(fieldnames, shown, FALSE, <<>>)
       IN  /\ printed' = printed \o d.printed
           /\ heatmaps' = heatmaps \o d.heatmaps
    /\ pc' = "prompt"
    /\ UNCHANGED <<command, fieldnames, shown, invoked>>
    /\ UNCHANGED <<cloudVars, seedVars>>

\* lines 45-48: 'show <names>'
CmdShowFields ==
    /\ pc = "dispatch"
    /\ command \notin {<<"step">>, <<"play">>, <<"pause">>, <<"show">>}
    /\ startswith(command, <<"show", " ">>)
    /\ LET d == draw(fieldnames, shown, TRUE, ParseFields(command))
       IN  /\ printed' = printed \o d.printed
           /\ heatmaps' = heatmaps \o d.heatmaps
    /\ pc' = "prompt"
    /\ UNCHANGED <<command, fieldnames, shown, invoked>>
    /\ UNCHANGED <<cloudVars, seedVars>>

\* lines 49-50: 'help'
CmdHelp ==
    /\ pc = "dispatch"
    /\ command = <<"help">>
    /\ printed' = printed \o <<[msg |-> "commands"]>>
    /\ pc' = "prompt"
    /\ UNCHANGED <<command, fieldnames, shown, invoked, heatmaps>>
    /\ UNCHANGED <<cloudVars, seedVars>>

\* lines 51-52: anything else
CmdUnknown ==
    /\ pc = "dispatch"
    /\ command \notin {<<"step">>, <<"play">>, <<"pause">>, <<"show">>, <<"help">>}
    /\ ~startswith(command, <<"show", " ">>)
    /\ printed' = printed \o <<[msg |-> "not recognized", command |-> command]>>
    /\ pc' = "prompt"
    /\ UNCHANGED <<command, fieldnames, shown, invoked, heatmaps>>
    /\ UNCHANGED <<cloudVars, seedVars>>

Dispatch == CmdApp \/ CmdShow \/ CmdShowFields \/ CmdHelp \/ CmdUnknown

(***************************************************************************)
(* Specifications: the PointCloud operations, the particle seeding with    *)
(* its round trip through the scatter, and the console loop.  The loop is  *)
(* sequential code: once input() has returned, the branch of the command   *)
(* runs, hence the weak fairness of Dispatch.                              *)
(***************************************************************************)
CloudIdle == cloud = PointCloud(<<>>, Scalar(1), "ZERO", FALSE) /\ op = "new"
                /\ target = NoTarget /\ result = NoResult
SeedIdle == seedArgs = NoArgs /\ seedOut = NoResult /\ tripOut = NoResult
ConsoleIdle == pc = "prompt" /\ command = <<>> /\ fieldnames = {}
                /\ shown = <<>> /\ invoked = <<>> /\ printed = <<Banner>>
                /\ heatmaps = <<>>

Init == CloudInit /\ SeedIdle /\ ConsoleIdle
Next == SampleAt \/ Mask \/ MaskSampleAt
Spec == Init /\ [][Next]_vars

InitSeed == CloudIdle /\ SeedInit /\ ConsoleIdle
NextSeed == DistributePoints \/ ScatterSeeded
SpecSeed == InitSeed /\ [][NextSeed]_vars

InitConsole == CloudIdle /\ SeedIdle /\ ConsoleInit
NextConsole == Input \/ Dispatch
SpecConsole == InitConsole /\ [][NextConsole]_vars /\ WF_vars(Dispatch)

(***************************************************************************)
(* The claims.                                                             *)
(***************************************************************************)
InRange(resolution, idx) ==
    \A ax \in Axes : 0 <= idx[ax] /\ idx[ax] < resolution[ax]

\* the elements of field that line 40 maps to cell idx of the target grid
ElementsIn(field, grid, idx) ==
    {i \in 1..Len(field.elements) :
        ClosestIndex(grid.bounds, grid.resolution, field.elements)[i] = idx}

ValueSum(field) == SumSeq([i \in 1..Len(field.elements) |-> ValueAt(field, i)])

OneCell == GridCell(UnitBox, <<1, 1>>)
AllInOneCell(field) ==
    /\ Len(field.elements) >= 1
    /\ ElementsIn(field, OneCell, <<0, 0>>) = 1..Len(field.elements)

\* C1: sample_at on a regular grid (GridCell) returns the CenteredGrid of the
\* grid scatter over the target's bounds and resolution; on every other kind
\* of target it fails with NotImplementedError and returns no value.
C1_SampleAtDispatch ==
    op = "sample_at" =>
        IF target.kind = "GridCell"
        THEN /\ result.kind = "CenteredGrid"
             /\ result.box = target.bounds
             /\ result.resolution = target.resolution
        ELSE /\ result.kind = "error"
             /\ result.error = "NotImplementedError"

\* C2: with add_overlapping = true and all N points mapping to the one cell of
\* a 1-cell grid, the scatter yields the sum of the N values in that cell
\* (a symmetric function of the values: the same for every storage order).
C2_SumScatter ==
    (op = "sample_at" /\ target = OneCell /\ cloud.add_overlapping
        /\ AllInOneCell(cloud)) =>
        /\ result.kind = "CenteredGrid"
        /\ result.values[<<0, 0>>] = ValueSum(cloud)

\* C3: with add_overlapping = false and all N points mapping to the one cell
\* of a 1-cell grid, the scatter yields the mean of the N values in that cell.
C3_BlendScatter ==
    (op = "sample_at" /\ target = OneCell /\ ~cloud.add_overlapping
        /\ AllInOneCell(cloud)) =>
        /\ result.kind = "CenteredGrid"
        /\ result.values[<<0, 0>>] * Len(cloud.elements) = ValueSum(cloud)

\* C4: mask() returns a new PointCloud with the elements of P, the value 1 for
\* every element, extrapolation ZERO and add_overlapping = false, and leaves P
\* as it was.
C4_Mask ==
    [][op' = "mask" =>
        /\ result'.kind = "PointCloud"
        /\ result'.value.elements = cloud.elements
        /\ \A i \in 1..Len(cloud.elements) : ValueAt(result'.value, i) = 1
        /\ result'.value.extrapolation = "ZERO"
        /\ result'.value.add_overlapping = FALSE
        /\ cloud' = cloud]_vars

\* a mask was taken of a cloud with two elements, values other than 1, an
\* extrapolation other than ZERO and add_overlapping = true
C4_Witness ==
    /\ op = "mask"
    /\ result.kind = "PointCloud"
    /\ Len(cloud.elements) = 2
    /\ cloud.values = Array(<<2, 1>>)
    /\ cloud.extrapolation = "PERIODIC"
    /\ cloud.add_overlapping

\* C5: scattering P.mask() onto a grid gives in every cell the number of
\* elements of P that map to that cell, whatever the values of P.
C5_MaskOccupancy ==
    (op = "mask.sample_at" /\ target.kind = "GridCell") =>
        /\ result.kind = "CenteredGrid"
        /\ \A idx \in (0..(target.resolution[1] - 1))
                      \X (0..(target.resolution[2] - 1)) :
             result.values[idx] = Cardinality(ElementsIn(cloud, target, idx))

\* C9: the grid scatter over box B and resolution R returns a CenteredGrid
\* over B, of shape R, with the extrapolation of the source PointCloud.
C9_ScatterResult ==
    (op = "sample_at" /\ target.kind = "GridCell") =>
        /\ result.kind = "CenteredGrid"
        /\ result.box = target.bounds
        /\ result.shape = target.resolution
        /\ result.extrapolation = cloud.extrapolation

\* the batches of a density the seeding loop runs over: all of them when the
\* static batch size is known, the first one otherwise
Processed(density) ==
    IF density.static_known THEN 1..Len(density.data) ELSE {1}

Centre(cell) == [ax \in Axes |-> 2 * cell[ax] + 1]

\* batch b of the returned array holds the centre of every active cell of
\* density batch b exactly k times, and nothing else
SeededAtCentres(density, k, value, b) ==
    /\ b <= Len(value)
    /\ Len(value[b]) = k * ActiveCount(density.data[b])
    /\ \A c \in Cells :
         Cardinality({i \in 1..Len(value[b]) : value[b][i] = Centre(c)})
            = IF density.data[b][c] > 0 THEN k ELSE 0

CountsDiffer(density, batches) ==
    \E b1, b2 \in batches :
        ActiveCount(density.data[b1]) # ActiveCount(density.data[b2])

C8_RoundTrip ==
    (tripOut.kind = "scatter" /\ seedArgs.particles_per_cell = 1
        /\ seedArgs.distribution = "center") =>
        LET b == tripOut.batch
            seeded == where(seedArgs.density.data[b])
            o == tripOut.outcome
        IN  /\ \A i \in 1..Len(seeded) :
                 /\ InRange(GridRes, o.closest_index[i])
                 /\ \A ax \in Axes : 2 * o.closest_index[i][ax] = seeded[i][ax]
            /\ o.kind = "CenteredGrid"
            /\ \A c \in Cells :
                 o.values[c] = IF seedArgs.density.data[b][c] > 0 THEN 1 ELSE 0

\* the command is 'show <names>'
IsShowNames(cmd) == Len(cmd) >= 2 /\ cmd[1] = "show" /\ cmd[2] = " "

\* the requested names the app does not hold
MissingNames(cmd) ==
    {i \in 1..Len(ParseFields(cmd)) :
        \A f \in fieldnames : ParseFields(cmd)[i] # <<f>>}

\* the loop is back at the prompt after a command
AfterCommand == pc = "prompt" /\ Head(printed) = Prompt

C10_Handled ==
    AfterCommand =>
        /\ invoked = IF command \in {<<"step">>, <<"play">>, <<"pause">>}
                     THEN command ELSE <<>>
        /\ (IsShowNames(command) /\ MissingNames(command) # {}) =>
             /\ heatmaps = <<>>
             /\ Len(printed) = 2
             /\ printed[2].msg = "missing"
             /\ printed[2].available = fieldnames
             /\ \E i \in MissingNames(command) :
                  printed[2].field = ParseFields(command)[i]

\* C10: a 'show <names>' with a name the app does not hold reports that name
\* with the available names and renders no heatmap; every command leads back
\* to the prompt, where the next command is read and processed; and only
\* 'step', 'play' and 'pause' invoke the app operation of that name.
C10_ShowLoop ==
    /\ []C10_Handled
    /\ [](pc = "prompt" => ENABLED Input)
    /\ [][pc = "dispatch" => pc' = "prompt"]_vars
    /\ (pc = "dispatch" ~> pc = "prompt")

\* 'show a,x' was handled by an app that holds a and b but not x
C10_Witness ==
    /\ AfterCommand
    /\ command = <<"show", " ", "a", ",", "x">>
    /\ fieldnames = {"a", "b"}
    /\ heatmaps = <<>>
    /\ printed[2] = [msg |-> "missing", field |-> <<"x">>,
                     available |-> {"a", "b"}]

====
